---- MODULE Spec2Model ----
(***************************************************************************)
(* Shamba Records backend: users, farmer profiles and crops behind a       *)
(* role-based HTTP API (src/shamba).  Every request handler is one action; *)
(* the persisted tables and the credential store are the state, and the    *)
(* last request together with its response is kept in resp so that         *)
(* properties can speak about what a request returned.                     *)
(*                                                                         *)
(* Decimals (quantity, farm_size: two decimal places) are counted in       *)
(* hundredths.  A nullable column holds <<>> for NULL and <<v>> for v.     *)
(***************************************************************************)
EXTENDS Integers, Sequences, FiniteSets, TLC

\* ---------------------------------------------------------------- bounds
MaxUsers == 3        \* user rows ever inserted (ids are never reused)
MaxCrops == 2        \* crop rows ever inserted
MaxLogins == 1       \* tokens issued beyond one per user row

MaxKeys == MaxUsers + MaxLogins

\* ------------------------------------------------------------- the state
VARIABLES
    users,       \* User table: id -> row
    farmers,     \* Farmer table: id -> row
    crops,       \* Crop table: id -> row
    token,       \* Token table: user id -> key (one-to-one with the user)
    sessions,    \* users holding a session opened by login()
    nextUserId, nextFarmerId, nextCropId, nextKey,   \* autoincrement / fresh keys
    resp         \* the last request and its response

vars == <<users, farmers, crops, token, sessions,
          nextUserId, nextFarmerId, nextCropId, nextKey, resp>>

db == <<users, farmers, crops, token, sessions>>

\* ------------------------------------------------------------- helpers
Null == <<>>
NoData == <<>>
NoBody == <<>>
Anonymous == 0

Has(d, k) == k \in DOMAIN d
Get(d, k, default) == IF k \in DOMAIN d THEN d[k] ELSE default
Restrict(d, ks) == [k \in DOMAIN d \cap ks |-> d[k]]
Put(f, k, v) == [x \in DOMAIN f \cup {k} |-> IF x = k THEN v ELSE f[x]]
Without(f, ks) == [x \in DOMAIN f \ ks |-> f[x]]
Merge(row, d) == [k \in DOMAIN row |-> IF k \in DOMAIN d THEN d[k] ELSE row[k]]

Response(op, key, user, pk, data, status, body) ==
    [op |-> op, key |-> key, user |-> user, pk |-> pk, data |-> data,
     status |-> status, body |-> body]

\* ------------------------------------------------------------ models.py
ROLE_CHOICES == {"admin", "farmer"}
CROP_TYPES == {"cereals", "legumes", "vegetables", "fruits", "cash_crops", "other"}
CROP_STATUS == {"planted", "growing", "harvested", "sold"}
MinDecimal == 1      \* MinValueValidator(Decimal('0.01')), in hundredths

is_admin(u) == users[u].role = "admin"
is_farmer(u) == users[u].role = "farmer"

\* Farmer rows whose user is u (OneToOneField: at most one).
FarmerOf(u) == {f \in DOMAIN farmers : farmers[f].user = u}
\* Crop rows of farmer f (related_name='crops').
CropsOf(f) == {c \in DOMAIN crops : crops[c].farmer = f}

\* User.objects.create_user(**data): unset columns take the model defaults.
create_user(data) ==
    [username   |-> data.username,
     password   |-> data.password,
     role       |-> Get(data, "role", "farmer"),
     first_name |-> Get(data, "first_name", ""),
     last_name  |-> Get(data, "last_name", ""),
     email      |-> Get(data, "email", ""),
     phone      |-> Get(data, "phone", Null),
     address    |-> Get(data, "address", Null)]

\* Farmer.objects.create(user=user, **data).
create_farmer(u, data) ==
    [user      |-> u,
     farm_name |-> Get(data, "farm_name", Null),
     farm_size |-> Get(data, "farm_size", Null),
     location  |-> Get(data, "location", Null)]

\* Faulty variant of CropsAfterFarmerDelete: the crops are left behind.
CropsAfterFarmerDelete_NoCascade(fs) == crops
\* on_delete=CASCADE: deleting farmer rows deletes their crops.
CropsAfterFarmerDelete(fs) == Without(crops, {c \in DOMAIN crops : crops[c].farmer \in fs})

\* ------------------------------------------------------- authentication
\* The bearer credential of section 6: a request presents a token key (0: none);
\* the caller is the user holding that key, otherwise the request is anonymous.
Authenticate(key) ==
    IF key # 0 /\ \E u \in DOMAIN token : token[u] = key
    THEN CHOOSE u \in DOMAIN token : token[u] = key
    ELSE Anonymous

\* Token.objects.get_or_create(user=u): the table after, and the key returned.
TokenKeyFor(u) == IF u \in DOMAIN token THEN token[u] ELSE nextKey
TokenAfterGetOrCreate(u) == Put(token, u, TokenKeyFor(u))
NextKeyAfterGetOrCreate(u) == IF u \in DOMAIN token THEN nextKey ELSE nextKey + 1

\* ------------------------------------------------------- permissions.py
IsAuthenticated(u) == u # Anonymous
\* Faulty variant of IsAdminUser: the role is not looked at.
IsAdminUser_AnyAuthenticated(u) == u # Anonymous
IsAdminUser(u) == u # Anonymous /\ is_admin(u)
IsFarmerUser(u) == u # Anonymous /\ is_farmer(u)
IsCropOwnerOrAdmin_has_permission(u) == u # Anonymous
\* Faulty variant of has_object_permission: any farmer passes, not the owner only.
IsCropOwnerOrAdmin_has_object_permission_AnyFarmer(u, c) ==
    IF is_admin(u) THEN TRUE ELSE is_farmer(u)
IsCropOwnerOrAdmin_has_object_permission(u, c) ==
    IF is_admin(u) THEN TRUE ELSE farmers[crops[c].farmer].user = u

\* ------------------------------------------------------- serializers.py
WeakPasswords == {"123"}
validate_password(p) == p \notin WeakPasswords

Usernames == {users[u].username : u \in DOMAIN users}
UserOfName(n) == CHOOSE u \in DOMAIN users : users[u].username = n

RegistrationFields == {"username", "email", "password", "confirm_password",
                       "first_name", "last_name", "phone", "address"}

\* UserRegistrationSerializer.is_valid(): required fields, the unique
\* username, the password validators, then validate().
UserRegistrationSerializer_is_valid(data) ==
    /\ {"username", "password", "confirm_password"} \subseteq DOMAIN data
    /\ data.username \notin Usernames
    /\ validate_password(data.password)
    /\ data.password = data.confirm_password

\* UserRegistrationSerializer.create(): the first write inserts the user, the
\* second the empty profile.  profileWritten is the datastore's answer to the
\* second insert.
\* Faulty variant of RegisteredUser: role is taken from the payload.
RegisteredUser_RoleWritable(data) ==
    create_user(Restrict(data, (RegistrationFields \cup {"role"}) \ {"confirm_password"}))
RegisteredUser(data) ==
    create_user(Restrict(data, RegistrationFields \ {"confirm_password"}))

\* ------------------------------------------------------------- views.py
\* RegisterView.post
Register(data, profileWritten) ==
    /\ IF UserRegistrationSerializer_is_valid(data)
       THEN /\ nextUserId <= MaxUsers
            /\ LET u == nextUserId
                   row == RegisteredUser(data)
               IN /\ users' = Put(users, u, row)
                  /\ nextUserId' = u + 1
                  /\ IF row.role = "farmer" /\ profileWritten
                     THEN /\ farmers' = Put(farmers, nextFarmerId, create_farmer(u, NoData))
                          /\ nextFarmerId' = nextFarmerId + 1
                     ELSE UNCHANGED <<farmers, nextFarmerId>>
                  /\ IF row.role = "farmer" /\ ~profileWritten
                     THEN /\ UNCHANGED <<token, nextKey>>
                          /\ resp' = Response("register", 0, Anonymous, 0, data, 500, NoBody)
                     ELSE /\ token' = Put(token, u, nextKey)
                          /\ nextKey' = nextKey + 1
                          /\ resp' = Response("register", 0, Anonymous, 0, data, 201,
                                              [user |-> u, token |-> nextKey])
       ELSE /\ UNCHANGED <<users, farmers, token, nextUserId, nextFarmerId, nextKey>>
            /\ resp' = Response("register", 0, Anonymous, 0, data, 400, NoBody)
    /\ UNCHANGED <<crops, nextCropId, sessions>>

\* LoginSerializer.validate: authenticate(username, password).
LoginSerializer_is_valid(data) ==
    /\ {"username", "password"} \subseteq DOMAIN data
    /\ data.username \in Usernames
    /\ users[UserOfName(data.username)].password = data.password

\* LoginView.post
Login(data) ==
    /\ IF LoginSerializer_is_valid(data)
       THEN LET u == UserOfName(data.username)
            IN /\ u \in DOMAIN token \/ nextKey <= MaxKeys
               /\ sessions' = sessions \cup {u}
               /\ token' = TokenAfterGetOrCreate(u)
               /\ nextKey' = NextKeyAfterGetOrCreate(u)
               /\ resp' = Response("login", 0, Anonymous, 0, data, 200,
                                   [user |-> u, token |-> TokenKeyFor(u)])
       ELSE /\ UNCHANGED <<token, sessions, nextKey>>
            /\ resp' = Response("login", 0, Anonymous, 0, data, 400, NoBody)
    /\ UNCHANGED <<users, farmers, crops, nextUserId, nextFarmerId, nextCropId>>

\* LogoutView.post
Logout(key) ==
    LET u == Authenticate(key)
    IN /\ IF IsAuthenticated(u)
          THEN /\ token' = Without(token, {u})
               /\ sessions' = sessions \ {u}
               /\ resp' = Response("logout", key, u, 0, NoData, 200, NoBody)
          ELSE /\ UNCHANGED <<token, sessions>>
               /\ resp' = Response("logout", key, u, 0, NoData, 401, NoBody)
       /\ UNCHANGED <<users, farmers, crops, nextUserId, nextFarmerId, nextCropId, nextKey>>

\* FarmerSerializer.is_valid(): the writable profile columns; farm_size
\* carries the model's MinValueValidator.  Every column is optional.
FarmerFields == {"farm_name", "farm_size", "location"}
FarmerSerializer_is_valid(data) ==
    Has(data, "farm_size") /\ data.farm_size # Null => data.farm_size[1] >= MinDecimal

\* FarmerCreateSerializer.is_valid(): username is a declared CharField, so it
\* carries no uniqueness validator.
FarmerCreateSerializer_is_valid(data) ==
    /\ {"username", "email", "password", "first_name", "last_name"} \subseteq DOMAIN data
    /\ validate_password(data.password)
    /\ FarmerSerializer_is_valid(data)

FarmerCreateUserData(data) ==
    [username   |-> data.username,
     email      |-> data.email,
     password   |-> data.password,
     first_name |-> data.first_name,
     last_name  |-> data.last_name,
     phone      |-> Get(data, "phone", <<"">>),
     address    |-> Get(data, "address", <<"">>),
     role       |-> "farmer"]

\* The reply to a request the permission classes turn away.
Denied(op, key, pk, data) ==
    Response(op, key, Authenticate(key), pk, data,
             IF Authenticate(key) = Anonymous THEN 401 ELSE 403, NoBody)

\* FarmerSerializer(farmer).data, for the row as it stands and as just saved.
FarmerDataOf(f, row) == [id |-> f, user |-> row.user, farm_name |-> row.farm_name,
                         farm_size |-> row.farm_size, location |-> row.location,
                         crops_count |-> Cardinality(CropsOf(f))]
FarmerData(f) == FarmerDataOf(f, farmers[f])

\* FarmerListCreateView: GET
FarmerList(key) ==
    LET u == Authenticate(key)
    IN /\ resp' = IF IsAdminUser(u)
                  THEN Response("farmer_list", key, u, 0, NoData, 200,
                                {FarmerData(f) : f \in DOMAIN farmers})
                  ELSE Denied("farmer_list", key, 0, NoData)
       /\ UNCHANGED <<db, nextUserId, nextFarmerId, nextCropId, nextKey>>

\* FarmerListCreateView: POST (FarmerCreateSerializer.create, then the reply).
\* The user insert fails on a taken username; profileWritten is the datastore's
\* answer to the profile insert.  The reply serializes the new Farmer with
\* FarmerCreateSerializer, whose required username field the row does not
\* have: the request ends in an error after both rows are written.
FarmerCreate(key, data, profileWritten) ==
    LET u == Authenticate(key)
    IN /\ IF ~IsAdminUser(u)
          THEN /\ UNCHANGED <<users, farmers, nextUserId, nextFarmerId>>
               /\ resp' = Denied("farmer_create", key, 0, data)
          ELSE IF ~FarmerCreateSerializer_is_valid(data)
          THEN /\ UNCHANGED <<users, farmers, nextUserId, nextFarmerId>>
               /\ resp' = Response("farmer_create", key, u, 0, data, 400, NoBody)
          ELSE IF data.username \in Usernames
          THEN /\ UNCHANGED <<users, farmers, nextUserId, nextFarmerId>>
               /\ resp' = Response("farmer_create", key, u, 0, data, 500, NoBody)
          ELSE /\ nextUserId <= MaxUsers
               /\ users' = Put(users, nextUserId, create_user(FarmerCreateUserData(data)))
               /\ nextUserId' = nextUserId + 1
               /\ IF profileWritten
                  THEN /\ farmers' = Put(farmers, nextFarmerId,
                                         create_farmer(nextUserId, Restrict(data, FarmerFields)))
                       /\ nextFarmerId' = nextFarmerId + 1
                  ELSE UNCHANGED <<farmers, nextFarmerId>>
               /\ resp' = Response("farmer_create", key, u, 0, data, 500, NoBody)
       /\ UNCHANGED <<crops, token, sessions, nextCropId, nextKey>>

\* FarmerDetailView: GET
FarmerRetrieve(key, pk) ==
    LET u == Authenticate(key)
    IN /\ resp' = IF ~IsAdminUser(u) THEN Denied("farmer_retrieve", key, pk, NoData)
                  ELSE IF pk \notin DOMAIN farmers
                  THEN Response("farmer_retrieve", key, u, pk, NoData, 404, NoBody)
                  ELSE Response("farmer_retrieve", key, u, pk, NoData, 200, FarmerData(pk))
       /\ UNCHANGED <<db, nextUserId, nextFarmerId, nextCropId, nextKey>>

\* FarmerDetailView: PUT / PATCH (no FarmerSerializer column is required, so
\* the two agree).
FarmerUpdate(key, pk, data) ==
    LET u == Authenticate(key)
    IN /\ IF ~IsAdminUser(u)
          THEN /\ UNCHANGED farmers
               /\ resp' = Denied("farmer_update", key, pk, data)
          ELSE IF pk \notin DOMAIN farmers
          THEN /\ UNCHANGED farmers
               /\ resp' = Response("farmer_update", key, u, pk, data, 404, NoBody)
          ELSE IF ~FarmerSerializer_is_valid(data)
          THEN /\ UNCHANGED farmers
               /\ resp' = Response("farmer_update", key, u, pk, data, 400, NoBody)
          ELSE /\ farmers' = Put(farmers, pk, Merge(farmers[pk], Restrict(data, FarmerFields)))
               /\ resp' = Response("farmer_update", key, u, pk, data, 200,
                                   FarmerDataOf(pk, Merge(farmers[pk], Restrict(data, FarmerFields))))
       /\ UNCHANGED <<users, crops, token, sessions,
                      nextUserId, nextFarmerId, nextCropId, nextKey>>

\* FarmerDetailView.destroy: farmer.delete() commits first (cascading to the
\* farmer's crops); user.delete() is a second statement (cascading to the
\* user's token), and userDeleted is the datastore's answer to it.  No
\* transaction encloses the two.  The reply is kept with the ids of the
\* farmer and user rows the request was deleting.
FarmerDestroy(key, pk, userDeleted) ==
    LET u == Authenticate(key)
    IN /\ IF ~IsAdminUser(u)
          THEN /\ UNCHANGED <<users, farmers, crops, token>>
               /\ resp' = Denied("farmer_destroy", key, pk, NoData)
          ELSE IF pk \notin DOMAIN farmers
          THEN /\ UNCHANGED <<users, farmers, crops, token>>
               /\ resp' = Response("farmer_destroy", key, u, pk, NoData, 404, NoBody)
          ELSE LET user == farmers[pk].user
               IN /\ farmers' = Without(farmers, {pk})
                  /\ crops' = CropsAfterFarmerDelete({pk})
                  /\ IF userDeleted
                     THEN /\ users' = Without(users, {user})
                          /\ token' = Without(token, {user})
                          /\ resp' = Response("farmer_destroy", key, u, pk, NoData, 204,
                                              [farmer |-> pk, user |-> user])
                     ELSE /\ UNCHANGED <<users, token>>
                          /\ resp' = Response("farmer_destroy", key, u, pk, NoData, 500,
                                              [farmer |-> pk, user |-> user])
       /\ UNCHANGED <<sessions, nextUserId, nextFarmerId, nextCropId, nextKey>>

\* FarmerProfileView.get
FarmerProfileGet(key) ==
    LET u == Authenticate(key)
    IN /\ resp' = IF ~IsFarmerUser(u) THEN Denied("profile_farmer_get", key, 0, NoData)
                  ELSE IF FarmerOf(u) = {}
                  THEN Response("profile_farmer_get", key, u, 0, NoData, 404, NoBody)
                  ELSE Response("profile_farmer_get", key, u, 0, NoData, 200,
                                FarmerData(CHOOSE f \in FarmerOf(u) : TRUE))
       /\ UNCHANGED <<db, nextUserId, nextFarmerId, nextCropId, nextKey>>

\* FarmerProfileView.put: the user columns named in the payload are set and
\* saved, and only then is the profile part validated.
user_fields == {"first_name", "last_name", "email", "phone", "address"}
FarmerProfilePut(key, data) ==
    LET u == Authenticate(key)
    IN /\ IF ~IsFarmerUser(u)
          THEN /\ UNCHANGED <<users, farmers>>
               /\ resp' = Denied("profile_farmer_put", key, 0, data)
          ELSE IF FarmerOf(u) = {}
          THEN /\ UNCHANGED <<users, farmers>>
               /\ resp' = Response("profile_farmer_put", key, u, 0, data, 404, NoBody)
          ELSE LET f == CHOOSE x \in FarmerOf(u) : TRUE
               IN /\ users' = Put(users, u, Merge(users[u], Restrict(data, user_fields)))
                  /\ IF FarmerSerializer_is_valid(data)
                     THEN /\ farmers' = Put(farmers, f,
                                            Merge(farmers[f], Restrict(data, FarmerFields)))
                          /\ resp' = Response("profile_farmer_put", key, u, 0, data, 200,
                                              FarmerDataOf(f, Merge(farmers[f],
                                                                    Restrict(data, FarmerFields))))
                     ELSE /\ UNCHANGED farmers
                          /\ resp' = Response("profile_farmer_put", key, u, 0, data, 400, NoBody)
       /\ UNCHANGED <<crops, token, sessions, nextUserId, nextFarmerId, nextCropId, nextKey>>

\* CropCreateUpdateSerializer.is_valid(): the model's field validators
\* (required columns unless partial, the choices, MinValueValidator), then
\* validate_quantity.
CropFields == {"name", "crop_type", "quantity", "unit", "planting_date",
               "expected_harvest_date", "status", "notes"}
validate_quantity(value) == value > 0
\* Faulty variant of is_valid: quantity is not validated.
CropCreateUpdateSerializer_is_valid_QuantityUnchecked(data, partial) ==
    /\ partial \/ {"name", "crop_type", "quantity"} \subseteq DOMAIN data
    /\ Has(data, "name") => data.name # ""
    /\ Has(data, "crop_type") => data.crop_type \in CROP_TYPES
    /\ Has(data, "status") => data.status \in CROP_STATUS
CropCreateUpdateSerializer_is_valid(data, partial) ==
    /\ partial \/ {"name", "crop_type", "quantity"} \subseteq DOMAIN data
    /\ Has(data, "name") => data.name # ""
    /\ Has(data, "crop_type") => data.crop_type \in CROP_TYPES
    /\ Has(data, "status") => data.status \in CROP_STATUS
    /\ Has(data, "quantity") => data.quantity >= MinDecimal /\ validate_quantity(data.quantity)

\* serializer.save(farmer=farmer) on create: unset columns take the model defaults.
create_crop(farmer, data) ==
    [farmer                |-> farmer,
     name                  |-> data.name,
     crop_type             |-> data.crop_type,
     quantity              |-> data.quantity,
     unit                  |-> Get(data, "unit", "kg"),
     planting_date         |-> Get(data, "planting_date", Null),
     expected_harvest_date |-> Get(data, "expected_harvest_date", Null),
     status                |-> Get(data, "status", "planted"),
     notes                 |-> Get(data, "notes", Null)]

\* Meta.ordering = ['-created_at']: rows are created one after the other, so
\* newest first is highest id first.
RECURSIVE NewestFirst(_)
NewestFirst(ids) ==
    IF ids = {} THEN <<>>
    ELSE LET m == CHOOSE x \in ids : \A y \in ids : y <= x
         IN <<m>> \o NewestFirst(ids \ {m})

\* request.query_params.get(name): None when the parameter is not sent; the
\* view applies a filter only when the value is truthy.
QueryParam(query, name) == Get(query, name, "")
\* Faulty variant of CropListQueryset: a farmer is shown every crop.
CropListQueryset_Unscoped(u) == DOMAIN crops
CropListQueryset(u) ==
    IF is_admin(u) THEN DOMAIN crops
    ELSE {c \in DOMAIN crops : crops[c].farmer \in FarmerOf(u)}
CropListFiltered(u, query) ==
    LET crop_type == QueryParam(query, "crop_type")
        status_filter == QueryParam(query, "status")
        byType == IF crop_type # "" THEN {c \in CropListQueryset(u) : crops[c].crop_type = crop_type}
                  ELSE CropListQueryset(u)
    IN IF status_filter # "" THEN {c \in byType : crops[c].status = status_filter}
       ELSE byType

\* CropListCreateView.get
CropList(key, query) ==
    LET u == Authenticate(key)
    IN /\ resp' = IF ~IsAuthenticated(u) THEN Denied("crop_list", key, 0, query)
                  ELSE IF ~is_admin(u) /\ FarmerOf(u) = {}
                  THEN Response("crop_list", key, u, 0, query, 404, NoBody)
                  ELSE Response("crop_list", key, u, 0, query, 200,
                                NewestFirst(CropListFiltered(u, query)))
       /\ UNCHANGED <<db, nextUserId, nextFarmerId, nextCropId, nextKey>>

\* Faulty variant of CropOwnerFor: a farmer_id in the payload wins.
CropOwnerFor_PayloadFirst(u, data) ==
    IF Has(data, "farmer_id") THEN data.farmer_id ELSE CHOOSE f \in FarmerOf(u) : TRUE
\* CropListCreateView.post: the farmer the new crop is saved with.
CropOwnerFor(u, data) ==
    IF is_farmer(u) THEN CHOOSE f \in FarmerOf(u) : TRUE ELSE data.farmer_id

\* CropListCreateView.post
CropCreate(key, data) ==
    LET u == Authenticate(key)
        farmer_id == Get(data, "farmer_id", 0)
    IN /\ IF ~IsAuthenticated(u)
          THEN /\ UNCHANGED <<crops, nextCropId>>
               /\ resp' = Denied("crop_create", key, 0, data)
          ELSE IF is_farmer(u) /\ FarmerOf(u) = {}
          THEN /\ UNCHANGED <<crops, nextCropId>>
               /\ resp' = Response("crop_create", key, u, 0, data, 404, NoBody)
          ELSE IF ~is_farmer(u) /\ farmer_id = 0
          THEN /\ UNCHANGED <<crops, nextCropId>>
               /\ resp' = Response("crop_create", key, u, 0, data, 400, "farmer_id is required for admin")
          ELSE IF ~is_farmer(u) /\ farmer_id \notin DOMAIN farmers
          THEN /\ UNCHANGED <<crops, nextCropId>>
               /\ resp' = Response("crop_create", key, u, 0, data, 404, NoBody)
          ELSE IF ~CropCreateUpdateSerializer_is_valid(data, FALSE)
          THEN /\ UNCHANGED <<crops, nextCropId>>
               /\ resp' = Response("crop_create", key, u, 0, data, 400, NoBody)
          ELSE LET farmer == CropOwnerFor(u, data)
               IN /\ nextCropId <= MaxCrops
                  /\ crops' = Put(crops, nextCropId, create_crop(farmer, data))
                  /\ nextCropId' = nextCropId + 1
                  /\ resp' = Response("crop_create", key, u, nextCropId, data, 201,
                                      create_crop(farmer, data))
       /\ UNCHANGED <<users, farmers, token, sessions, nextUserId, nextFarmerId, nextKey>>

\* CropDetailView: permission, then get_object(), then the object permission.
CropDetailRefusal(key, pk) ==
    LET u == Authenticate(key)
    IN IF ~IsCropOwnerOrAdmin_has_permission(u) THEN 401
       ELSE IF pk \notin DOMAIN crops THEN 404
       ELSE IF ~IsCropOwnerOrAdmin_has_object_permission(u, pk) THEN 403
       ELSE 0

\* CropDetailView: GET
CropRetrieve(key, pk) ==
    LET u == Authenticate(key)
        refused == CropDetailRefusal(key, pk)
    IN /\ resp' = IF refused # 0
                  THEN Response("crop_retrieve", key, u, pk, NoData, refused, NoBody)
                  ELSE Response("crop_retrieve", key, u, pk, NoData, 200, crops[pk])
       /\ UNCHANGED <<db, nextUserId, nextFarmerId, nextCropId, nextKey>>

\* CropDetailView: PUT (partial = FALSE) and PATCH (partial = TRUE)
CropUpdate(key, pk, data, partial) ==
    LET u == Authenticate(key)
        refused == CropDetailRefusal(key, pk)
        op == IF partial THEN "crop_patch" ELSE "crop_put"
    IN /\ IF refused # 0
          THEN /\ UNCHANGED crops
               /\ resp' = Response(op, key, u, pk, data, refused, NoBody)
          ELSE IF ~CropCreateUpdateSerializer_is_valid(data, partial)
          THEN /\ UNCHANGED crops
               /\ resp' = Response(op, key, u, pk, data, 400, NoBody)
          ELSE /\ crops' = Put(crops, pk, Merge(crops[pk], Restrict(data, CropFields)))
               /\ resp' = Response(op, key, u, pk, data, 200,
                                   Merge(crops[pk], Restrict(data, CropFields)))
       /\ UNCHANGED <<users, farmers, token, sessions,
                      nextUserId, nextFarmerId, nextCropId, nextKey>>

\* CropDetailView: DELETE
CropDestroy(key, pk) ==
    LET u == Authenticate(key)
        refused == CropDetailRefusal(key, pk)
    IN /\ IF refused # 0
          THEN /\ UNCHANGED crops
               /\ resp' = Response("crop_destroy", key, u, pk, NoData, refused, NoBody)
          ELSE /\ crops' = Without(crops, {pk})
               /\ resp' = Response("crop_destroy", key, u, pk, NoData, 204, NoBody)
       /\ UNCHANGED <<users, farmers, token, sessions,
                      nextUserId, nextFarmerId, nextCropId, nextKey>>

\* UserSerializer: role is among the fields but read-only, so a role in the
\* payload is dropped; email is an EmailField.
MalformedEmails == {"not-an-email"}
validate_email(e) == e \notin MalformedEmails
\* Faulty variant of UserSerializer_writable: role is left writable.
UserSerializer_writable_RoleWritable ==
    {"email", "first_name", "last_name", "phone", "address", "role"}
UserSerializer_writable == {"email", "first_name", "last_name", "phone", "address"}
UserSerializer_is_valid(data) ==
    Has(data, "email") => validate_email(data.email)
UserData(u, row) == [id |-> u, username |-> row.username, email |-> row.email,
                     first_name |-> row.first_name, last_name |-> row.last_name,
                     phone |-> row.phone, address |-> row.address, role |-> row.role]

\* UserProfileView.get
UserProfileGet(key) ==
    LET u == Authenticate(key)
    IN /\ resp' = IF ~IsAuthenticated(u) THEN Denied("profile_get", key, 0, NoData)
                  ELSE Response("profile_get", key, u, 0, NoData, 200, UserData(u, users[u]))
       /\ UNCHANGED <<db, nextUserId, nextFarmerId, nextCropId, nextKey>>

\* UserProfileView.put: a partial update of the caller's own row.
UserProfilePut(key, data) ==
    LET u == Authenticate(key)
    IN /\ IF ~IsAuthenticated(u)
          THEN /\ UNCHANGED users
               /\ resp' = Denied("profile_put", key, 0, data)
          ELSE IF ~UserSerializer_is_valid(data)
          THEN /\ UNCHANGED users
               /\ resp' = Response("profile_put", key, u, 0, data, 400, NoBody)
          ELSE LET row == Merge(users[u], Restrict(data, UserSerializer_writable))
               IN /\ users' = Put(users, u, row)
                  /\ resp' = Response("profile_put", key, u, 0, data, 200, UserData(u, row))
       /\ UNCHANGED <<farmers, crops, token, sessions,
                      nextUserId, nextFarmerId, nextCropId, nextKey>>

\* crop_statistics: crops_by_farmer groups the crop rows by the owning user's
\* (first_name, last_name), counts each group, orders by the count descending
\* and keeps the first TopFarmers groups.  The datastore orders equal counts
\* as it likes.  (crops_by_month reads created_at only and is left out.)
TopFarmers == 10
FarmerNameOf(c) == <<users[farmers[crops[c].farmer].user].first_name,
                     users[farmers[crops[c].farmer].user].last_name>>
StatisticsGroups == {FarmerNameOf(c) : c \in DOMAIN crops}
GroupCount(g) == Cardinality({c \in DOMAIN crops : FarmerNameOf(c) = g})
FirstN(s, n) == IF Len(s) <= n THEN s ELSE SubSeq(s, 1, n)
CropsByFarmerResults ==
    {FirstN(s, TopFarmers) :
        s \in {t \in [1 .. Cardinality(StatisticsGroups) ->
                         {[first_name |-> g[1], last_name |-> g[2], count |-> GroupCount(g)] :
                              g \in StatisticsGroups}] :
                  /\ \A i, j \in DOMAIN t : i # j => t[i] # t[j]
                  /\ \A i, j \in DOMAIN t : i < j => t[i].count >= t[j].count}}

crop_statistics(key) ==
    LET u == Authenticate(key)
    IN /\ IF ~IsAdminUser(u)
          THEN resp' = Denied("crop_statistics", key, 0, NoData)
          ELSE \E result \in CropsByFarmerResults :
                   resp' = Response("crop_statistics", key, u, 0, NoData, 200, result)
       /\ UNCHANGED <<db, nextUserId, nextFarmerId, nextCropId, nextKey>>

\* ------------------------------------------------------------ the system
AdminRow == [username |-> "admin", password |-> "Adm1n-pass", role |-> "admin",
             first_name |-> "", last_name |-> "", email |-> "",
             phone |-> Null, address |-> Null]

Init ==
    /\ users = (1 :> AdminRow)
    /\ farmers = <<>>
    /\ crops = <<>>
    /\ token = <<>>
    /\ sessions = {}
    /\ nextUserId = 2
    /\ nextFarmerId = 1
    /\ nextCropId = 1
    /\ nextKey = 1
    /\ resp = Response("none", 0, Anonymous, 0, NoData, 0, NoBody)

\* ------------------------------------------------------- request inputs
\* A request presents no credential (0) or any key the store ever issued.
KeysTried == 0 .. (nextKey - 1)
FarmerPks == 1 .. nextFarmerId
CropPks == 1 .. nextCropId

Ann == [username |-> "ann", password |-> "Gr33n-field", confirm_password |-> "Gr33n-field",
        first_name |-> "Ann", last_name |-> "Lee"]
Bob == [username |-> "bob", password |-> "Gr33n-field", confirm_password |-> "Gr33n-field",
        first_name |-> "Bob", last_name |-> "Lee"]

AuthRegisterPayloads ==
    {Ann,
     [Bob EXCEPT !.first_name = "Ann"] @@ [role |-> "admin"],
     [Ann EXCEPT !.confirm_password = "Gr33n-fields"],
     [Bob EXCEPT !.password = "123", !.confirm_password = "123"],
     [username |-> "bob", password |-> "Gr33n-field"]}

AuthLoginPayloads ==
    {[username |-> "admin", password |-> "Adm1n-pass"],
     [username |-> "ann", password |-> "Gr33n-field"],
     [username |-> "ann", password |-> "Adm1n-pass"],
     [username |-> "zoe", password |-> "Gr33n-field"],
     [username |-> "ann"]}

AdminLogin == [username |-> "admin", password |-> "Adm1n-pass"]

AuthNext ==
    \/ \E d \in AuthRegisterPayloads, w \in BOOLEAN : Register(d, w)
    \/ \E d \in AuthLoginPayloads : Login(d)
    \/ \E k \in KeysTried : Logout(k)

SpecAuth == Init /\ [][AuthNext]_vars

Cy == [username |-> "cy", email |-> "cy@shamba.io", password |-> "Gr33n-field",
       first_name |-> "Cy", last_name |-> "Lee", farm_size |-> <<250>>]

FarmerCreatePayloads ==
    {Cy,
     [Cy EXCEPT !.username = "ann"],
     [username |-> "cy", password |-> "Gr33n-field", farm_size |-> <<0>>]}

FarmerUpdatePayloads ==
    {[farm_name |-> <<"Hill Farm">>, farm_size |-> <<250>>],
     [farm_name |-> <<"Low Farm">>, farm_size |-> <<0>>]}

ProfilePayloads ==
    {[first_name |-> "Anna", farm_size |-> <<0>>],
     [email |-> "ann@shamba.io", phone |-> <<"0700">>, farm_size |-> <<250>>],
     [location |-> <<"Meru">>, role |-> "admin"]}

Maize == [name |-> "maize", crop_type |-> "cereals", quantity |-> 150]

FarmersNext ==
    \/ Register(Ann, TRUE)
    \/ Login(AdminLogin)
    \/ \E k \in KeysTried : FarmerList(k)
    \/ \E k \in KeysTried, d \in FarmerCreatePayloads : FarmerCreate(k, d, TRUE)
    \/ \E k \in KeysTried, pk \in FarmerPks : FarmerRetrieve(k, pk)
    \/ \E k \in KeysTried, pk \in FarmerPks, d \in FarmerUpdatePayloads : FarmerUpdate(k, pk, d)
    \/ \E k \in KeysTried, pk \in FarmerPks : FarmerDestroy(k, pk, TRUE)
    \/ \E k \in KeysTried : CropCreate(k, Maize)

SpecFarmers == Init /\ [][FarmersNext]_vars

DeleteNext ==
    \/ \E d \in {Ann, Bob} : Register(d, TRUE)
    \/ Login(AdminLogin)
    \/ \E k \in KeysTried : CropCreate(k, Maize)
    \/ \E k \in KeysTried, pk \in FarmerPks, w \in BOOLEAN : FarmerDestroy(k, pk, w)

SpecDelete == Init /\ [][DeleteNext]_vars

ProfileNext ==
    \/ \E d \in {Ann, Bob}, w \in BOOLEAN : Register(d, w)
    \/ \E k \in KeysTried : FarmerProfileGet(k)
    \/ \E k \in KeysTried : UserProfileGet(k)
    \/ \E k \in KeysTried, d \in ProfilePayloads : FarmerProfilePut(k, d)

SpecProfile == Init /\ [][ProfileNext]_vars

Beans == [name |-> "beans", crop_type |-> "legumes", quantity |-> 1, status |-> "growing"]
NoSuchFarmer == MaxUsers + 1
AnnLogin == [username |-> "ann", password |-> "Gr33n-field"]

Harvested == [status |-> "harvested"]

AccessNext ==
    \/ \E d \in {Ann, Bob} : Register(d, TRUE)
    \/ \E k \in KeysTried : CropCreate(k, Maize)
    \/ \E k \in KeysTried, pk \in CropPks : CropRetrieve(k, pk)
    \/ \E k \in KeysTried, pk \in CropPks : CropUpdate(k, pk, Harvested, TRUE)
    \/ \E k \in KeysTried, pk \in CropPks : CropUpdate(k, pk, Maize @@ Harvested, FALSE)
    \/ \E k \in KeysTried, pk \in CropPks : CropDestroy(k, pk)

SpecAccess == Init /\ [][AccessNext]_vars

CropCreatePayloads ==
    {Maize,
     Maize @@ [farmer_id |-> 2],
     Beans @@ [farmer_id |-> 1],
     [Maize EXCEPT !.quantity = 0],
     [Beans EXCEPT !.quantity = -50] @@ [farmer_id |-> 1],
     [Maize EXCEPT !.quantity = 0] @@ [farmer_id |-> NoSuchFarmer],
     [name |-> "beans", crop_type |-> "pulses", quantity |-> 20, farmer_id |-> 2]}

CreateNext ==
    \/ \E d \in {Ann, Bob} : Register(d, TRUE)
    \/ Login(AdminLogin)
    \/ \E k \in KeysTried, d \in CropCreatePayloads : CropCreate(k, d)

SpecCreate == Init /\ [][CreateNext]_vars

QuantityCreatePayloads ==
    {Maize,
     Beans @@ [farmer_id |-> 1],
     [Maize EXCEPT !.quantity = 0],
     [Beans EXCEPT !.quantity = -50] @@ [farmer_id |-> 1],
     [Maize EXCEPT !.quantity = 0] @@ [farmer_id |-> NoSuchFarmer]}

QuantityUpdatePayloads == {[quantity |-> 0, status |-> "sold"], [quantity |-> 20]}

QuantityNext ==
    \/ Register(Ann, TRUE)
    \/ Login(AdminLogin)
    \/ \E k \in KeysTried, d \in QuantityCreatePayloads : CropCreate(k, d)
    \/ \E k \in KeysTried, pk \in CropPks, d \in QuantityUpdatePayloads, partial \in BOOLEAN :
           CropUpdate(k, pk, d, partial)

SpecQuantity == Init /\ [][QuantityNext]_vars

CropListQueries ==
    {NoData,
     [crop_type |-> "cereals"],
     [status |-> "growing"],
     [crop_type |-> "cereals", status |-> "growing"],
     [crop_type |-> "", status |-> "planted"]}

ListNext ==
    \/ \E d \in {Ann, Bob}, w \in BOOLEAN : Register(d, w)
    \/ \E d \in {AdminLogin, AnnLogin} : Login(d)
    \/ \E k \in KeysTried, d \in {Maize, Beans} : CropCreate(k, d)
    \/ \E k \in KeysTried, q \in CropListQueries : CropList(k, q)

SpecList == Init /\ [][ListNext]_vars

StatisticsNext ==
    \/ \E d \in {Ann, Bob, [Bob EXCEPT !.first_name = "Ann"]} : Register(d, TRUE)
    \/ Login(AdminLogin)
    \/ \E k \in KeysTried : CropCreate(k, Maize)
    \/ \E k \in KeysTried : crop_statistics(k)

SpecStatistics == Init /\ [][StatisticsNext]_vars

\* Payloads that carry a role, for every endpoint that writes a row.
RoleProfilePayloads ==
    {[first_name |-> "Anna", role |-> "admin"],
     [role |-> "farmer"],
     [email |-> "not-an-email", role |-> "admin"]}
RoleFarmerPayload == [location |-> <<"Meru">>, role |-> "admin", user |-> [role |-> "admin"]]

RoleNext ==
    \/ Register(Ann @@ [role |-> "admin"], TRUE)
    \/ Login(AdminLogin)
    \/ \E k \in KeysTried : Logout(k)
    \/ \E k \in KeysTried, d \in RoleProfilePayloads : UserProfilePut(k, d)
    \/ \E k \in KeysTried : FarmerProfilePut(k, RoleFarmerPayload)
    \/ \E k \in KeysTried, pk \in FarmerPks : FarmerUpdate(k, pk, RoleFarmerPayload)
    \/ \E k \in KeysTried : CropCreate(k, Maize @@ [role |-> "admin"])

SpecRole == Init /\ [][RoleNext]_vars

\* The whole system: every request of every area.
Next ==
    \/ AuthNext
    \/ FarmersNext
    \/ DeleteNext
    \/ ProfileNext
    \/ AccessNext
    \/ CreateNext
    \/ QuantityNext
    \/ ListNext
    \/ StatisticsNext
    \/ RoleNext

Spec == Init /\ [][Next]_vars

\* ------------------------------------------------------------- properties
\* C4: after a successful registration (201) the new user has role farmer and
\* exactly one farmer profile, its own; no other user's profile was created or
\* changed.  A rejected registration (400) creates no user and no profile.
C4_RegistrationCreatesOwnProfile ==
    [][resp'.op = "register" =>
        /\ resp'.status = 201 =>
             LET u == resp'.body.user
             IN /\ u \notin DOMAIN users
                /\ DOMAIN users' = DOMAIN users \cup {u}
                /\ \A v \in DOMAIN users : users'[v] = users[v]
                /\ users'[u].role = "farmer"
                /\ users'[u].username = resp'.data.username
                /\ Cardinality({f \in DOMAIN farmers' : farmers'[f].user = u}) = 1
                /\ Cardinality(DOMAIN farmers') = Cardinality(DOMAIN farmers) + 1
                /\ \A f \in DOMAIN farmers : f \in DOMAIN farmers' /\ farmers'[f] = farmers[f]
        /\ resp'.status = 400 => users' = users /\ farmers' = farmers]_vars

C4_Witness ==
    /\ resp.op = "register" /\ resp.status = 201
    /\ Has(resp.data, "role")
    /\ Cardinality(DOMAIN farmers) >= 2

\* C7: a second logout with the key the first logout invalidated answers
\* without an error and leaves the credential store as the first left it.
C7_LogoutTwiceNoError ==
    [][(/\ resp.op = "logout" /\ resp.status = 200
        /\ resp'.op = "logout" /\ resp'.key = resp.key)
       => (resp'.status = 200 /\ token' = token /\ sessions' = sessions)]_vars

\* C2: when an admin's farmer deletion has ended, the deleted profile and its
\* backing user are both gone or both still there, also when the user
\* deletion failed after the profile deletion ran.
C2_FarmerDeleteAtomic ==
    (resp.op = "farmer_destroy" /\ resp.status \in {204, 500})
    => (resp.body.farmer \in DOMAIN farmers <=> resp.body.user \in DOMAIN users)

\* C3: a farmer's own profile update that is answered with a validation
\* error has changed nothing of the caller's user row.
C3_ProfileUpdateAllOrNothing ==
    [][(resp'.op = "profile_farmer_put" /\ resp'.status = 400) => users' = users]_vars

\* C9: a farmer-management request (list, create, retrieve, update, delete)
\* from a caller with role farmer, or from an unauthenticated caller, is
\* rejected, returns no farmer data and changes no user, profile or crop.
FarmerManagementOps ==
    {"farmer_list", "farmer_create", "farmer_retrieve", "farmer_update", "farmer_destroy"}
CallerHolding(key) == {u \in DOMAIN token : key # 0 /\ token[u] = key}
C9_FarmerManagementAdminOnly ==
    [][(/\ resp'.op \in FarmerManagementOps
        /\ \A u \in CallerHolding(resp'.key) : users[u].role = "farmer")
       => /\ resp'.status \in {401, 403}
          /\ resp'.body = NoBody
          /\ users' = users /\ farmers' = farmers /\ crops' = crops]_vars

C9_Witness ==
    /\ resp.op = "farmer_destroy" /\ resp.status = 403
    /\ resp.user # Anonymous /\ users[resp.user].role = "farmer"
    /\ resp.pk \in DOMAIN farmers /\ farmers[resp.pk].user # resp.user
    /\ DOMAIN crops # {}

\* C1: a retrieve, update or delete of an existing crop by an authenticated
\* caller who is neither an admin nor the user of the crop's farmer is
\* rejected with 403 or 404, returns nothing of the crop, and leaves the crop
\* in place with every column as it was.
CropDetailOps == {"crop_retrieve", "crop_put", "crop_patch", "crop_destroy"}
C1_CropOwnerOrAdminOnly ==
    [][(/\ resp'.op \in CropDetailOps
        /\ resp'.pk \in DOMAIN crops
        /\ CallerHolding(resp'.key) # {}
        /\ \A u \in CallerHolding(resp'.key) :
               /\ users[u].role # "admin"
               /\ u # farmers[crops[resp'.pk].farmer].user)
       => /\ resp'.status \in {403, 404}
          /\ resp'.body = NoBody
          /\ resp'.pk \in DOMAIN crops'
          /\ crops'[resp'.pk] = crops[resp'.pk]]_vars

C1_Witness ==
    /\ resp.op = "crop_patch" /\ resp.status = 403
    /\ resp.user # Anonymous /\ users[resp.user].role = "farmer"
    /\ FarmerOf(resp.user) # {}
    /\ resp.pk \in DOMAIN crops /\ farmers[crops[resp.pk].farmer].user # resp.user

\* C5 as claimed: every crop creation with quantity <= 0 by a farmer or an
\* admin is answered with a validation error (400) and persists nothing.
QuantityNotPositive(r) ==
    /\ r.op = "crop_create"
    /\ Has(r.data, "quantity") /\ r.data.quantity <= 0
    /\ CallerHolding(r.key) # {}
C5_NonPositiveQuantityIsValidationError ==
    [][QuantityNotPositive(resp') => (resp'.status = 400 /\ crops' = crops)]_vars

\* C5 amended: every crop creation with quantity <= 0 by a farmer or an admin
\* is rejected and persists nothing; the rejection is a validation error (400)
\* unless the farmer the crop would belong to does not resolve (no profile of
\* the calling farmer, no farmer with the admin's farmer_id), which is answered
\* 404.  Every persisted crop has quantity > 0 after any creates and updates.
OwnerResolves(r) ==
    \A u \in CallerHolding(r.key) :
        IF users[u].role = "farmer" THEN FarmerOf(u) # {}
        ELSE Get(r.data, "farmer_id", 0) = 0 \/ Get(r.data, "farmer_id", 0) \in DOMAIN farmers
C5_NonPositiveQuantityRejected ==
    /\ [][QuantityNotPositive(resp') =>
            /\ crops' = crops
            /\ resp'.status = IF OwnerResolves(resp') THEN 400 ELSE 404]_vars
    /\ [](\A c \in DOMAIN crops : crops[c].quantity > 0)

C5_Witness ==
    /\ resp.op = "crop_create" /\ resp.status = 400
    /\ Has(resp.data, "quantity") /\ resp.data.quantity <= 0
    /\ resp.user # Anonymous /\ users[resp.user].role = "admin"
    /\ Get(resp.data, "farmer_id", 0) \in DOMAIN farmers
    /\ DOMAIN crops # {}

\* C6: a crop created by a farmer caller belongs to the caller's own profile
\* whatever farmer identifier the payload carries; an admin caller who sends no
\* farmer_id gets a validation error and no crop is persisted.
C6_CropOwnerFromCallerRole ==
    [][resp'.op = "crop_create" =>
        \A u \in CallerHolding(resp'.key) :
            /\ users[u].role = "farmer" =>
                 /\ \A c \in DOMAIN crops : c \in DOMAIN crops' /\ crops'[c] = crops[c]
                 /\ \A c \in DOMAIN crops' \ DOMAIN crops : crops'[c].farmer \in FarmerOf(u)
                 /\ resp'.status = 201 => DOMAIN crops' # DOMAIN crops
            /\ (users[u].role = "admin" /\ ~Has(resp'.data, "farmer_id")) =>
                 (resp'.status = 400 /\ crops' = crops)]_vars

C6_Witness ==
    /\ resp.op = "crop_create" /\ resp.status = 201
    /\ resp.user # Anonymous /\ users[resp.user].role = "farmer"
    /\ Has(resp.data, "farmer_id")
    /\ resp.data.farmer_id \in DOMAIN farmers \ FarmerOf(resp.user)
    /\ crops[resp.pk].farmer \in FarmerOf(resp.user)

\* C8: the crop list answers an admin with exactly the crops matching the
\* filters and a farmer with exactly the matching crops of the caller's own
\* profile; a crop matches iff each of the crop_type and status filters is
\* absent (not sent, or sent empty) or equals the crop's column.
FilterAbsent(q, name) == ~Has(q, name) \/ q[name] = ""
CropMatches(c, q) ==
    /\ FilterAbsent(q, "crop_type") \/ crops[c].crop_type = q.crop_type
    /\ FilterAbsent(q, "status") \/ crops[c].status = q.status
ListedCrops == {resp.body[i] : i \in DOMAIN resp.body}
C8_CropListScopedAndFiltered ==
    (resp.op = "crop_list" /\ resp.user # Anonymous) =>
        IF users[resp.user].role = "admin"
        THEN /\ resp.status = 200
             /\ ListedCrops = {c \in DOMAIN crops : CropMatches(c, resp.data)}
        ELSE IF FarmerOf(resp.user) = {}
        THEN resp.status = 404 /\ resp.body = NoBody
        ELSE /\ resp.status = 200
             /\ ListedCrops = {c \in DOMAIN crops : /\ crops[c].farmer \in FarmerOf(resp.user)
                                                    /\ CropMatches(c, resp.data)}

C8_Witness ==
    /\ resp.op = "crop_list" /\ resp.status = 200
    /\ resp.user # Anonymous /\ users[resp.user].role = "farmer"
    /\ ~FilterAbsent(resp.data, "crop_type")
    /\ ListedCrops # {}
    /\ \E c \in DOMAIN crops : /\ CropMatches(c, resp.data)
                               /\ crops[c].farmer \notin FarmerOf(resp.user)

\* C10: crops_by_farmer has one entry per farmer profile owning crops (at most
\* ten of them), each entry's count is the number of crops of that one farmer,
\* and the entries are in non-increasing order of count.
CropOwners == {f \in DOMAIN farmers : CropsOf(f) # {}}
C10_CropsByFarmerPerFarmer ==
    (resp.op = "crop_statistics" /\ resp.status = 200) =>
        /\ Len(resp.body) = IF Cardinality(CropOwners) <= TopFarmers
                            THEN Cardinality(CropOwners) ELSE TopFarmers
        /\ \A i, j \in DOMAIN resp.body : i < j => resp.body[i].count >= resp.body[j].count
        /\ \E owner \in [DOMAIN resp.body -> CropOwners] :
               /\ \A i, j \in DOMAIN resp.body : i # j => owner[i] # owner[j]
               /\ \A i \in DOMAIN resp.body :
                      /\ resp.body[i].count = Cardinality(CropsOf(owner[i]))
                      /\ resp.body[i].first_name = users[farmers[owner[i]].user].first_name
                      /\ resp.body[i].last_name = users[farmers[owner[i]].user].last_name

\* C11: no request changes the role of a user: a user row that is there
\* before and after a request has the same role after as before, whatever
\* the payload said about role.
C11_RoleImmutable ==
    [][\A u \in DOMAIN users \cap DOMAIN users' : users'[u].role = users[u].role]_vars

\* C11 witness: a profile update carrying a role other than the caller's was
\* accepted and changed the caller's row.
C11_Witness ==
    /\ resp.op = "profile_put"
    /\ resp.status = 200
    /\ Has(resp.data, "role")
    /\ resp.data.role # users[resp.user].role
    /\ users[resp.user].first_name = "Anna"

\* C12: in every state each crop's farmer is a farmer row that exists, each
\* farmer row's user is a user row that exists and no two farmer rows share a
\* user; and a request that deletes a farmer row leaves exactly the crops of
\* the other farmers, each unchanged.
ReferentialIntegrity ==
    /\ \A c \in DOMAIN crops : crops[c].farmer \in DOMAIN farmers
    /\ \A f \in DOMAIN farmers : farmers[f].user \in DOMAIN users
    /\ \A f, g \in DOMAIN farmers : farmers[f].user = farmers[g].user => f = g
FarmerDeleted(pk) == pk \in DOMAIN farmers /\ pk \notin DOMAIN farmers'
C12_ReferentialIntegrity ==
    /\ []ReferentialIntegrity
    /\ [][\A pk \in DOMAIN farmers :
              FarmerDeleted(pk) =>
                  /\ resp'.op = "farmer_destroy"
                  /\ is_admin(resp'.user)
                  /\ DOMAIN crops' = {c \in DOMAIN crops : crops[c].farmer # pk}
                  /\ \A c \in DOMAIN crops' : crops'[c] = crops[c]]_vars

\* C12 witness: an admin deleted a farmer who owned a crop, and a crop of
\* another farmer is still there.
C12_Witness ==
    /\ resp.op = "farmer_destroy"
    /\ resp.status = 204
    /\ resp.pk \notin DOMAIN farmers
    /\ Cardinality(DOMAIN crops) < nextCropId - 1
    /\ crops # <<>>

====
